---------------------------- MODULE Spec2Model ----------------------------
(***************************************************************************)
(* Model of intensity_normalization.utilities.csf (csf_mask and            *)
(* csf_mask_intersection) and of the preprocessing command line entry      *)
(* point intensity_normalization.exec.preprocess (main).                   *)
(*                                                                         *)
(* Conventions                                                             *)
(*   - membership probabilities and csf_thresh are in tenths (9 = 0.9);    *)
(*   - prob is the rational prob / ProbDen;                                *)
(*   - tissue classes are numbered 1..NumClasses (Python indexes 0..2);    *)
(*   - a file path is the sequence of the character codes of its name;     *)
(*   - the segmentation library is a black box: its result for an image    *)
(*     is an input (one membership map per class).                         *)
(***************************************************************************)
EXTENDS Integers, Sequences, FiniteSets

VARIABLES op, pc, err,
          prob, img_dir, masksArg, data, masks, i, csf, log, imgn, fsOps,
          segCalls, intersection,
          call, ret,
          argv, level, outcome, logged, mainRet, exitCode

vars == <<op, pc, err, prob, img_dir, masksArg, data, masks, i, csf, log,
          imgn, fsOps, segCalls, intersection, call, ret, argv, level,
          outcome, logged, mainRet, exitCode>>

cohortVars == <<prob, img_dir, masksArg, data, masks, i, csf, log, imgn,
                fsOps, segCalls, intersection>>
maskVars == <<call, ret>>
mainVars == <<argv, level, outcome, logged, mainRet, exitCode>>

---------------------------------------------------------------------------
(* Bounds of the model *)

\* number of voxels of an image
NV == 4
\* prob ranges over the multiples of 1/ProbDen from -1/ProbDen to 1 + 1/ProbDen
ProbDen == 4
\* largest verbosity count given on the command line
MaxVerbosity == 3

\* number of tissue classes asked of the segmentation
NumClasses == 3
\* default csf_thresh, in tenths
DefaultCsfThresh == 9
\* membership cut-off of the class mean, in tenths
HalfMembership == 5

Vox == 1..NV
Classes == 1..NumClasses
Intens == {1, 2}
None == "None"

\* membership of one voxel in the classes, in tenths
\* a voxel wholly in one class
CrispRows == { <<10, 0, 0>>, <<0, 10, 0>>, <<0, 0, 10>> }
\* and a voxel in a class below the default threshold, and one in no class
MemberRows == CrispRows \cup { <<6, 4, 0>>, <<0, 5, 5>> }

\* what the segmentation can return for an image: the image's intensities and
\* res['probabilityimages'] (rows[v][k] is the membership of voxel v in class k)
SegOutcomes == [img : [Vox -> Intens], rows : [Vox -> MemberRows]]

\* "1.nii", "10.nii", "2.nii" as character codes
ImgNames == { <<49, 46, 110, 105, 105>>, <<49, 48, 46, 110, 105, 105>>,
              <<50, 46, 110, 105, 105>> }
\* "a.nii", "b.nii", "ab.nii"
MaskNames == { <<97, 46, 110, 105, 105>>, <<98, 46, 110, 105, 105>>,
               <<97, 98, 46, 110, 105, 105>> }

---------------------------------------------------------------------------
(* csf_mask *)

RECURSIVE SumOver(_, _)
SumOver(f, S) ==
    IF S = {} THEN 0
    ELSE LET x == CHOOSE y \in S : TRUE IN f[x] + SumOver(f, S \ {x})

\* prob_img.numpy() > 0.5 for class k
Members(seg, k) == {v \in Vox : seg.rows[v][k] > HalfMembership}

\* variant: the intensities are summed and not divided by their number
sum_intensity(seg, k) ==
    LET sel == Members(seg, k) IN
    [nan |-> sel = {}, num |-> SumOver(seg.img, sel), den |-> 1]

\* np.mean(img.numpy()[prob_img.numpy() > 0.5]): nan over an empty selection,
\* otherwise the fraction num / den
avg_intensity(seg, k) ==
    LET sel == Members(seg, k) IN
    [nan |-> sel = {}, num |-> SumOver(seg.img, sel), den |-> Cardinality(sel)]

MeanLess(a, b) == a.num * b.den < b.num * a.den

\* np.argmin: the first nan if there is one, otherwise the first minimum
ArgMin(avg) ==
    IF \E k \in Classes : avg[k].nan
    THEN CHOOSE k \in Classes :
            avg[k].nan /\ \A j \in Classes : (j < k) => ~avg[j].nan
    ELSE CHOOSE k \in Classes :
            /\ \A j \in Classes : ~MeanLess(avg[j], avg[k])
            /\ \A j \in Classes : (j < k) => MeanLess(avg[k], avg[j])

csf_arg(seg) == ArgMin([k \in Classes |-> avg_intensity(seg, k)])

\* (csf > csf_thresh).astype(np.float32)
Threshold(m, csf_thresh) == [v \in Vox |-> IF m[v] > csf_thresh THEN 1 ELSE 0]

\* lines 47-49: the representations of (img, brain_mask) after the conversion
Converted(img, brain_mask) ==
    IF img = "nibabel" /\ brain_mask = "nibabel"
    THEN <<"ants", "ants">>
    ELSE <<img, brain_mask>>

\* csf_mask(img, brain_mask, csf_thresh, return_prob) where seg is what the
\* segmentation returns for img.  img and brain_mask are the representations
\* of the arguments ("ants", "nibabel", or None for no mask).
\*   raised  : the exception that leaves csf_mask, or None
\*   segArgs : the representations handed to the segmentation, or <<>> when
\*             kmeans_segmentation was never entered
csf_mask(img, brain_mask, seg, csf_thresh, return_prob) ==
    LET reps == Converted(img, brain_mask)
        k == csf_arg(seg)
        m == [v \in Vox |-> seg.rows[v][k]]
    IN  IF reps[1] # "ants"
        THEN \* a nibabel image has no kmeans_segmentation method
             [raised |-> "AttributeError", segArgs |-> <<>>, csf_arg |-> 0,
              csf |-> <<>>]
        ELSE IF reps[2] = "nibabel"
        THEN \* the toolkit is handed a mask that is not its own image type
             [raised |-> "LibraryError", segArgs |-> reps, csf_arg |-> 0,
              csf |-> <<>>]
        ELSE [raised |-> None, segArgs |-> reps, csf_arg |-> k,
              csf |-> IF return_prob THEN m ELSE Threshold(m, csf_thresh)]

---------------------------------------------------------------------------
(* csf_mask_intersection *)

\* a < b in Python's string order (by character code, a proper prefix first)
LexLess(a, b) ==
    \E n \in 1..Len(b) :
        /\ \A j \in 1..(n - 1) : j <= Len(a) /\ a[j] = b[j]
        /\ n - 1 <= Len(a)
        /\ (n > Len(a) \/ a[n] < b[n])

\* sorted(glob(...)): glob yields the directory's matching files in no
\* particular order, sorted puts them in string order
RECURSIVE sorted(_)
sorted(S) ==
    IF S = {} THEN <<>>
    ELSE LET m == CHOOSE x \in S : \A y \in S \ {x} : LexLess(x, y)
         IN  <<m>> \o sorted(S \ {m})

\* variant: the upper end of the range is not checked
ProbValidNoUpper(p) == 0 <= p

\* line 73: 0 <= prob <= 1
ProbValid(p) == 0 <= p /\ p <= ProbDen

\* line 76: isinstance(masks, str)
IsStr(m) == m.kind = "dir"

\* line 76: the masks paired with the images
MaskList(m, d) ==
    IF IsStr(m) THEN sorted(m.files) ELSE [n \in 1..Len(d) |-> m.rep]

Min(a, b) == IF a < b THEN a ELSE b

\* line 78: zip(data, masks) stops at the shorter of the two
ZipLen(d, m) == Min(Len(d), Len(m))

\* line 83: csf.append(...)
Retain(c, m) == Append(c, m)

\* what csf_mask(imgn, maskn) can return for a cohort image (an image read
\* by the toolkit, default csf_thresh, return_prob false), by the
\* representation of maskn
PerImageCsf ==
    [m \in {"ants", None} |->
        {csf_mask("ants", m, s, DefaultCsfThresh, FALSE).csf : s \in SegOutcomes}]

\* line 84: reduce(add, csf)
RECURSIVE csf_sum(_)
csf_sum(c) ==
    IF Len(c) = 1 THEN c[1]
    ELSE LET r == csf_sum(SubSeq(c, 1, Len(c) - 1))
         IN  [v \in Vox |-> r[v] + c[Len(c)][v]]

\* variant: the product is rounded up
ThresholdCountCeil(d, p) == (Len(d) * p + ProbDen - 1) \div ProbDen

\* line 86: np.floor(len(data) * prob)
ThresholdCount(d, p) == (Len(d) * p) \div ProbDen

\* variant: the comparison with the threshold count is strict
IntersectStrict(c, d, p) ==
    LET s == csf_sum(c)
    IN  [v \in Vox |-> IF s[v] > ThresholdCount(d, p) THEN 1 ELSE 0]

\* variant: the cohort size is taken from the masks made, not from the images
IntersectProcessed(c, d, p) ==
    LET s == csf_sum(c)
    IN  [v \in Vox |-> IF s[v] >= (Len(c) * p) \div ProbDen THEN 1 ELSE 0]

\* lines 85-86
Intersect(c, d, p) ==
    LET s == csf_sum(c)
    IN  [v \in Vox |-> IF s[v] >= ThresholdCount(d, p) THEN 1 ELSE 0]

\* lines 73-77
Enter ==
    /\ op = "csf_mask_intersection" /\ pc = "call"
    /\ IF ~ProbValid(prob)
       THEN /\ err' = "NormalizationError"
            /\ pc' = "raised"
            /\ UNCHANGED <<data, masks, fsOps>>
       ELSE /\ data' = sorted(img_dir)
            /\ masks' = MaskList(masksArg, data')
            /\ fsOps' = fsOps \o <<"glob">>
                          \o (IF IsStr(masksArg) THEN <<"glob">> ELSE <<>>)
            /\ pc' = "loop"
            /\ UNCHANGED err
    /\ UNCHANGED <<op, prob, img_dir, masksArg, i, csf, log, imgn, segCalls,
                   intersection>>
    /\ UNCHANGED <<maskVars, mainVars>>

\* lines 78-83: one turn of the loop
Iterate ==
    /\ op = "csf_mask_intersection" /\ pc = "loop"
    /\ i < ZipLen(data, masks)
    /\ LET img == data[i + 1]
           mask == masks[i + 1]
           maskn == IF IsStr(masksArg) THEN "ants" ELSE mask
       IN  /\ log' = Append(log, [img |-> img, pos |-> i + 1, total |-> Len(data)])
           /\ imgn' = img
           /\ fsOps' = fsOps \o <<"image_read">>
                         \o (IF IsStr(masksArg) THEN <<"image_read">> ELSE <<>>)
           /\ segCalls' = segCalls + 1
           /\ \E m \in PerImageCsf[maskn] : csf' = Retain(csf, m)
    /\ i' = i + 1
    /\ UNCHANGED <<op, pc, err, prob, img_dir, masksArg, data, masks,
                   intersection>>
    /\ UNCHANGED <<maskVars, mainVars>>

\* lines 84-87
Finish ==
    /\ op = "csf_mask_intersection" /\ pc = "loop"
    /\ i = ZipLen(data, masks)
    /\ IF csf = <<>>
       THEN \* reduce() of an empty sequence with no initial value
            /\ err' = "TypeError"
            /\ pc' = "raised"
            /\ UNCHANGED intersection
       ELSE /\ intersection' = Intersect(csf, data, prob)
            /\ pc' = "done"
            /\ UNCHANGED err
    /\ UNCHANGED <<op, prob, img_dir, masksArg, data, masks, i, csf, log,
                   imgn, fsOps, segCalls>>
    /\ UNCHANGED <<maskVars, mainVars>>

---------------------------------------------------------------------------
(* a call of csf_mask on its own *)

CsfMaskCall ==
    /\ op = "csf_mask" /\ pc = "call"
    /\ ret' = csf_mask(call.img, call.brain_mask, call.seg, call.csf_thresh,
                       call.return_prob)
    /\ err' = ret'.raised
    /\ pc' = IF ret'.raised = None THEN "done" ELSE "raised"
    /\ UNCHANGED <<op, call>>
    /\ UNCHANGED <<cohortVars, mainVars>>

---------------------------------------------------------------------------
(* exec/preprocess.py run as a script *)

NoCode == 0 - 1

\* lines 51-56
Level(verbosity) ==
    IF verbosity = 1 THEN "INFO"
    ELSE IF verbosity >= 2 THEN "DEBUG"
    ELSE "WARNING"

\* variant: the except clause returns 0 as well
MainReturnZero(o) == 0

\* lines 59-64: what main returns for an outcome of preprocess that the
\* try statement handles
MainReturn(o) == IF o = "ok" THEN 0 ELSE 1

\* lines 23-25: the module's import of preprocess
MainImport ==
    /\ op = "main" /\ pc = "import"
    /\ \/ pc' = "main" /\ UNCHANGED err
       \/ pc' = "raised" /\ err' = "ImportError"
    /\ UNCHANGED <<op, mainVars, cohortVars, maskVars>>

\* lines 50-58: parse_args and the logging set-up.  argparse leaves through
\* SystemExit (status 2 on a usage error, 0 after --help) before the try
\* statement is entered.
MainParse ==
    /\ op = "main" /\ pc = "main"
    /\ IF argv.parse = "ok"
       THEN /\ level' = Level(argv.verbosity)
            /\ pc' = "try"
            /\ UNCHANGED err
       ELSE /\ err' = "SystemExit"
            /\ pc' = "raised"
            /\ UNCHANGED level
    /\ UNCHANGED <<op, argv, outcome, logged, mainRet, exitCode>>
    /\ UNCHANGED <<cohortVars, maskVars>>

\* lines 59-64: preprocess returns, raises an Exception, or raises something
\* that is no Exception (KeyboardInterrupt), which the except clause lets by
MainRun ==
    /\ op = "main" /\ pc = "try"
    /\ \E o \in {"ok", "Exception", "KeyboardInterrupt"} :
        /\ outcome' = o
        /\ IF o = "KeyboardInterrupt"
           THEN /\ err' = "KeyboardInterrupt"
                /\ pc' = "raised"
                /\ UNCHANGED <<logged, mainRet>>
           ELSE /\ logged' = IF o = "ok" THEN logged ELSE Append(logged, o)
                /\ mainRet' = MainReturn(o)
                /\ pc' = "returned"
                /\ UNCHANGED err
    /\ UNCHANGED <<op, argv, level, exitCode>>
    /\ UNCHANGED <<cohortVars, maskVars>>

\* lines 67-68: sys.exit(main()), or the interpreter ending on what was raised
SysExit ==
    /\ op = "main" /\ pc \in {"returned", "raised"}
    /\ exitCode' \in
         IF pc = "returned" THEN {mainRet}
         ELSE IF err = "SystemExit"
         THEN {IF argv.parse = "usage" THEN 2 ELSE 0}
         ELSE IF err = "KeyboardInterrupt" THEN {1, 130}
         ELSE {1}
    /\ pc' = "exited"
    /\ UNCHANGED <<op, err, argv, level, outcome, logged, mainRet>>
    /\ UNCHANGED <<cohortVars, maskVars>>

---------------------------------------------------------------------------

Reps == {"ants", "nibabel"}

MaskArgs ==
    [kind : {"dir"}, files : SUBSET MaskNames, rep : {None}]
      \cup [kind : {"obj"}, files : {{}}, rep : {"ants", None}]

\* images with one dark voxel, the first or the last
DarkFirst == [v \in Vox |-> IF v = 1 THEN 1 ELSE 2]
DarkLast == [v \in Vox |-> IF v = NV THEN 1 ELSE 2]

\* the calls of csf_mask taken: toolkit images with every segmentation
\* outcome at the default threshold; the two images above with every
\* membership map, at a lower threshold and with raw output; and every
\* pairing of representations with the crisp outcomes of a flat image
CallsThresholded ==
    [img : {"ants"}, brain_mask : {"ants"}, seg : SegOutcomes,
     csf_thresh : {DefaultCsfThresh}, return_prob : {FALSE}]
CallsByOption ==
    [img : {"ants"}, brain_mask : {"ants"},
     seg : [img : {DarkFirst, DarkLast}, rows : [Vox -> MemberRows]],
     csf_thresh : {HalfMembership, DefaultCsfThresh}, return_prob : BOOLEAN]
CallsByRep ==
    [img : Reps, brain_mask : Reps,
     seg : [img : {[v \in Vox |-> 1]}, rows : [Vox -> CrispRows]],
     csf_thresh : {DefaultCsfThresh}, return_prob : {FALSE}]

NoCall == [img |-> None, brain_mask |-> None,
           seg |-> CHOOSE s \in SegOutcomes : TRUE,
           csf_thresh |-> DefaultCsfThresh, return_prob |-> FALSE]
NoRet == [raised |-> None, segArgs |-> <<>>, csf_arg |-> 0, csf |-> <<>>]
NoArgv == [parse |-> None, verbosity |-> 0]

Init ==
    \/ /\ op = "csf_mask" /\ pc = "call"
       /\ \/ call \in CallsThresholded
          \/ call \in CallsByOption
          \/ call \in CallsByRep
       /\ err = None
       /\ prob = 0 /\ img_dir = {}
       /\ masksArg = [kind |-> "obj", files |-> {}, rep |-> None]
       /\ data = <<>> /\ masks = <<>> /\ i = 0 /\ csf = <<>> /\ log = <<>>
       /\ imgn = <<>> /\ fsOps = <<>> /\ segCalls = 0 /\ intersection = <<>>
       /\ ret = NoRet
       /\ argv = NoArgv /\ level = None /\ outcome = None /\ logged = <<>>
       /\ mainRet = NoCode /\ exitCode = NoCode
    \/ /\ op = "csf_mask_intersection" /\ pc = "call"
       /\ prob \in (0 - 1)..(ProbDen + 1)
       /\ img_dir \in SUBSET ImgNames
       /\ masksArg \in MaskArgs
       /\ err = None
       /\ data = <<>> /\ masks = <<>> /\ i = 0 /\ csf = <<>> /\ log = <<>>
       /\ imgn = <<>> /\ fsOps = <<>> /\ segCalls = 0 /\ intersection = <<>>
       /\ call = NoCall /\ ret = NoRet
       /\ argv = NoArgv /\ level = None /\ outcome = None /\ logged = <<>>
       /\ mainRet = NoCode /\ exitCode = NoCode
    \/ /\ op = "main" /\ pc = "import"
       /\ argv \in [parse : {"ok", "usage", "help"}, verbosity : 0..MaxVerbosity]
       /\ err = None
       /\ prob = 0 /\ img_dir = {}
       /\ masksArg = [kind |-> "obj", files |-> {}, rep |-> None]
       /\ data = <<>> /\ masks = <<>> /\ i = 0 /\ csf = <<>> /\ log = <<>>
       /\ imgn = <<>> /\ fsOps = <<>> /\ segCalls = 0 /\ intersection = <<>>
       /\ call = NoCall /\ ret = NoRet
       /\ level = None /\ outcome = None /\ logged = <<>>
       /\ mainRet = NoCode /\ exitCode = NoCode

Next ==
    \/ CsfMaskCall
    \/ Enter
    \/ Iterate
    \/ Finish
    \/ MainImport
    \/ MainParse
    \/ MainRun
    \/ SysExit

Spec == Init /\ [][Next]_vars

---------------------------------------------------------------------------
(* Properties *)

Cohort == op = "csf_mask_intersection"

\* N: the number of image files in the image directory
CohortN == Cardinality(img_dir)

\* the number of per-image CSF masks that are 1 at voxel v
Votes(v) == Cardinality({n \in 1..Len(csf) : csf[n][v] = 1})

\* floor(N * prob), as the largest integer not above N * prob / ProbDen
FloorNProb ==
    CHOOSE t \in 0..CohortN :
        t * ProbDen <= CohortN * prob /\ (t + 1) * ProbDen > CohortN * prob

\* C1: a call with prob < 0 or prob > 1 ends in NormalizationError with no
\* directory listing, no image or mask read and no segmentation done before
\* it; a call with 0 <= prob <= 1 never raises NormalizationError.
C1_ProbValidation ==
    (Cohort /\ pc # "call") =>
        IF prob < 0 \/ prob > ProbDen
        THEN /\ pc = "raised" /\ err = "NormalizationError"
             /\ fsOps = <<>> /\ segCalls = 0
        ELSE err # "NormalizationError"

C1_Witness ==
    /\ Cohort /\ prob > ProbDen /\ img_dir # {} /\ masksArg.kind = "dir"
    /\ err = "NormalizationError" /\ fsOps = <<>>

\* C2: the returned mask is 1 at voxel v exactly when the number of images
\* whose per-image CSF mask is 1 at v is at least floor(N * prob), and is 0
\* otherwise.
C2_FloorThreshold ==
    (Cohort /\ pc = "done") =>
        \A v \in Vox :
            /\ intersection[v] \in {0, 1}
            /\ intersection[v] = 1 <=> Votes(v) >= FloorNProb

C2_Witness ==
    /\ Cohort /\ pc = "done" /\ CohortN = 3 /\ prob = 2
    /\ \E v \in Vox : Votes(v) = 1 /\ intersection[v] = 1
    /\ \E v \in Vox : Votes(v) = 0 /\ intersection[v] = 0

\* C3 as stated: the returned mask is 1 at v exactly when the fraction
\* Votes(v) / N is at least prob.
C3_FractionMeetsProb ==
    (Cohort /\ pc = "done" /\ CohortN >= 1) =>
        \A v \in Vox :
            intersection[v] = 1 <=> Votes(v) * ProbDen >= CohortN * prob

\* C3 amended: the returned mask is 1 at v exactly when (Votes(v) + 1) / N
\* is greater than prob, so a voxel whose fraction is below prob by less
\* than 1/N is still set.
C3_FractionWithinOneVote ==
    (Cohort /\ pc = "done" /\ CohortN >= 1) =>
        \A v \in Vox :
            intersection[v] = 1 <=> (Votes(v) + 1) * ProbDen > CohortN * prob

C3_Witness ==
    /\ Cohort /\ pc = "done" /\ CohortN = 3
    /\ \E v \in Vox :
          /\ Votes(v) * ProbDen < CohortN * prob
          /\ intersection[v] = 1
    /\ \E v \in Vox : intersection[v] = 0

\* C4: with prob = 1 the returned mask is 1 at v exactly when all N
\* per-image CSF masks are 1 at v, whatever the mask argument is.
C4_Unanimous ==
    (Cohort /\ pc = "done" /\ prob = ProbDen) =>
        \A v \in Vox :
            intersection[v] = 1 <=>
                \A n \in 1..CohortN : n <= Len(csf) /\ csf[n][v] = 1

C4_Witness ==
    /\ Cohort /\ pc = "done" /\ prob = ProbDen /\ CohortN = 3
    /\ masksArg.kind = "dir"
    /\ \E v \in Vox : intersection[v] = 1
    /\ \E v \in Vox : intersection[v] = 0

\* C5 as stated: with prob = 0 the returned mask is 1 at v exactly when at
\* least one per-image CSF mask is 1 at v.
C5_AtLeastOneVote ==
    (Cohort /\ pc = "done" /\ prob = 0) =>
        \A v \in Vox : intersection[v] = 1 <=> Votes(v) >= 1

\* the mean intensity of class j is not below that of class k, over the
\* voxels of membership above one half (both classes having such voxels)
C6_MeanNotBelow(seg, j, k) ==
    LET inK == {v \in Vox : seg.rows[v][k] > HalfMembership}
        inJ == {v \in Vox : seg.rows[v][j] > HalfMembership}
    IN  SumOver(seg.img, inK) * Cardinality(inJ)
            <= SumOver(seg.img, inJ) * Cardinality(inK)

C6_ThreeClasses(seg) ==
    \A k \in Classes : \E v \in Vox : seg.rows[v][k] > HalfMembership

\* C6: when the segmentation gives each of the 3 classes voxels of
\* membership above 0.5, csf_mask takes as CSF a class of lowest mean
\* intensity over those voxels and returns that class's membership map, raw
\* when return_prob is true and thresholded at csf_thresh otherwise.
C6_DarkestClass ==
    (op = "csf_mask" /\ pc = "done" /\ C6_ThreeClasses(call.seg)) =>
        /\ ret.csf_arg \in Classes
        /\ \A j \in Classes : C6_MeanNotBelow(call.seg, j, ret.csf_arg)
        /\ \A v \in Vox :
              IF call.return_prob
              THEN ret.csf[v] = call.seg.rows[v][ret.csf_arg]
              ELSE ret.csf[v] =
                      IF call.seg.rows[v][ret.csf_arg] > call.csf_thresh
                      THEN 1 ELSE 0

C6_Witness ==
    /\ op = "csf_mask" /\ pc = "done" /\ C6_ThreeClasses(call.seg)
    /\ ret.csf_arg = 3 /\ ~call.return_prob
    /\ LET k == ret.csf_arg
           inK == {v \in Vox : call.seg.rows[v][k] > HalfMembership}
       IN  /\ \E v, w \in inK : call.seg.img[v] # call.seg.img[w]
           /\ \E j \in Classes :
                 /\ ~C6_MeanNotBelow(call.seg, k, j)
                 /\ SumOver(call.seg.img,
                            {v \in Vox : call.seg.rows[v][j] > HalfMembership})
                       < SumOver(call.seg.img, inK)
    /\ \E v \in Vox : ret.csf[v] = 1
    /\ \E v \in Vox : ret.csf[v] = 0

\* C7 as stated: a finished cohort run has made exactly N progress entries,
\* the n-th one for the n-th image in string order of the paths, carrying
\* position n and total N, for a shared mask and a mask directory alike.
C7_ProgressLog ==
    (Cohort /\ pc = "done") =>
        /\ Len(log) = CohortN
        /\ \A n \in 1..Len(log) :
              /\ log[n].pos = n /\ log[n].total = CohortN
              /\ Cardinality({x \in img_dir : LexLess(x, log[n].img)}) = n - 1

\* C8 as stated: a run of main() exits with 0 when nothing was raised and
\* with 1 whenever something was raised, which is then logged; no other
\* exit code is produced.
C8_ExitZeroOrOne ==
    (op = "main" /\ pc = "exited" /\ err # "ImportError") =>
        /\ exitCode \in {0, 1}
        /\ exitCode = 0 <=> (err = None /\ outcome = "ok")
        /\ exitCode = 1 => logged # <<>>

\* C8 amended: when the arguments parse and preprocess returns or raises an
\* Exception, main exits with 0 after a return and with 1 after the
\* Exception, which is logged before main returns; a usage error of the
\* argument parser exits with 2 and nothing logged.
C8_ExitCodeOfTry ==
    /\ (op = "main" /\ pc \in {"returned", "exited"} /\ outcome = "Exception")
          => (logged = <<"Exception">> /\ mainRet = 1)
    /\ (op = "main" /\ pc = "exited") =>
          /\ (argv.parse = "ok" /\ outcome = "ok")
                => (exitCode = 0 /\ logged = <<>>)
          /\ (argv.parse = "ok" /\ outcome = "Exception") => exitCode = 1
          /\ (argv.parse = "usage" /\ err = "SystemExit")
                => (exitCode = 2 /\ logged = <<>>)

C8_Witness ==
    /\ op = "main" /\ pc = "exited" /\ argv.parse = "ok"
    /\ outcome = "Exception" /\ exitCode = 1 /\ logged # <<>>

\* C9 as stated: whenever the segmentation is called, the image and the
\* brain mask are both in the toolkit's own representation.
C9_NativeAtSegmentation ==
    (op = "csf_mask" /\ pc # "call" /\ ret.segArgs # <<>>) =>
        ret.segArgs = <<"ants", "ants">>

\* C10 as stated: no more than one per-image CSF mask is retained at a time,
\* each being folded into the running sum before the next image is loaded.
C10_AtMostOneMask ==
    Cohort => Len(csf) <= 1

====
